---------------------------- MODULE Spec2Model ----------------------------
(***************************************************************************)
(* A model of docx-proofreader (src/par.py, src/main.py): the extraction   *)
(* of a review transcript from a WordprocessingML document.                *)
(*                                                                         *)
(* Strings are sequences of one-character strings, so that concatenation,  *)
(* formatting and the regular-expression search of has_edits are computed  *)
(* character by character.  An element of the document tree is a record    *)
(*   [tag, text, id, kids]                                                 *)
(* as xml.etree.ElementTree gives it: tag without its namespace, text the  *)
(* element's .text, id the w:id attribute of a comment-range marker and    *)
(* kids the child elements in document order.  ElementTree gives the text  *)
(* None to an element with no character data (<w:t/>), and never the empty *)
(* string: NoneText stands for that None.                                  *)
(***************************************************************************)
EXTENDS Integers, Sequences, FiniteSets, TLC

VARIABLES
  pc,            \* position of the running program ("main" of src/par.py)
  paragraph,     \* one <w:p> element, the input of the paragraph-level functions
  rendered,      \* result of get_paragraph_text(paragraph)
  extracted,     \* result of extract_comments_from_paragraph on paragraph
  comments_part, \* the w:comment elements of word/comments.xml
  heap,          \* the paragraph dicts: a reference is an index into heap
  paragraphs,    \* main's list of paragraphs, a sequence of references
  instructions,  \* the context windows made so far, each a sequence of references
  calls,         \* the arguments [index, context_level] of each window's get_context call
  sample,        \* a text t and the plain text before and after it
  checked,       \* the string given to has_edits, and how it was made
  detected,      \* the result of has_edits on it
  document_part, \* the w:p elements of word/document.xml, in document order
  loop_index,    \* how many paragraphs main's loop has given their comments
  error,         \* the exception that ended main, "" if none
  output         \* proofread_instructions.txt: the lines written, if it was opened

vars == <<pc, paragraph, rendered, extracted, comments_part,
          heap, paragraphs, instructions, calls, sample, checked, detected,
          document_part, loop_index, error, output>>

mainVars == <<document_part, loop_index, error, output>>

editVars == <<sample, checked, detected>>

paraVars == <<paragraph, rendered, extracted>>

listVars == <<heap, paragraphs, instructions, calls>>

---------------------------------------------------------------------------
(* Bounds of the model *)

MaxTextItems == 2

MaxAnchorItems == 3

MaxListLen == 5

MaxRadius == 2

MaxCalls == 2

MaxTextLen == 3

MaxParagraphs == 3

---------------------------------------------------------------------------
(* Strings *)

NoneText == <<>>

NoneStr == <<"N", "o", "n", "e">>

\* str(x) inside an f-string: None prints as the four characters None
FStr(text) == IF text = NoneText THEN NoneStr ELSE text

format_insertion_text(text) == <<"*", "*">> \o FStr(text) \o <<"*", "*">>

format_deletion_text(text) == <<"-", "-">> \o FStr(text) \o <<"-", "-">>

\* re.search of g g .*? g g : two glyph pairs that do not overlap, with no
\* line break between them ("." does not match "\n" without re.DOTALL)
SearchSpan(content, g) ==
  \E i \in 1..Len(content), j \in 1..Len(content) :
    /\ j >= i + 2
    /\ j + 1 <= Len(content)
    /\ content[i] = g /\ content[i + 1] = g
    /\ content[j] = g /\ content[j + 1] = g
    /\ \A k \in (i + 2)..(j - 1) : content[k] # "\n"

has_edits(content) == SearchSpan(content, "*") \/ SearchSpan(content, "-")

---------------------------------------------------------------------------
(* The document tree *)

Elem(tag, kids) == [tag |-> tag, text |-> NoneText, id |-> "", kids |-> kids]

TextLeaf(text) == [tag |-> "t", text |-> text, id |-> "", kids |-> <<>>]

DelTextLeaf(text) == [tag |-> "delText", text |-> text, id |-> "", kids |-> <<>>]

Run(kids) == Elem("r", kids)

Ins(kids) == Elem("ins", kids)

Del(kids) == Elem("del", kids)

\* an element the program does not recognise (w:smartTag, w:hyperlink, ...)
Wrapper(kids) == Elem("smartTag", kids)

RangeStart(id) == [tag |-> "commentRangeStart", text |-> NoneText, id |-> id, kids |-> <<>>]

RangeEnd(id) == [tag |-> "commentRangeEnd", text |-> NoneText, id |-> id, kids |-> <<>>]

Paragraph(kids) == Elem("p", kids)

IsTextTag(tag) == tag \in {"t", "delText"}

---------------------------------------------------------------------------
(* Text Extractor *)

RECURSIVE get_plain_text(_)
RECURSIVE PlainTextOfKids(_)

\* element.iter() visits the element itself, then its subtree in document order
get_plain_text(element) ==
  (IF IsTextTag(element.tag) THEN element.text ELSE <<>>)
    \o PlainTextOfKids(element.kids)

PlainTextOfKids(kids) ==
  IF kids = <<>> THEN <<>>
  ELSE get_plain_text(Head(kids)) \o PlainTextOfKids(Tail(kids))

RECURSIVE get_paragraph_text(_)
RECURSIVE ParagraphTextOfKids(_)

\* the loop body without the "if ins_text:" and "if del_text:" guards
ParagraphTextOfChild_NoEmptyGuard(child) ==
  IF child.tag = "ins" THEN <<"*", "*">> \o get_plain_text(child) \o <<"*", "*">>
  ELSE IF child.tag = "del" THEN <<"-", "-">> \o get_plain_text(child) \o <<"-", "-">>
  ELSE IF child.tag = "r" THEN get_plain_text(child)
  ELSE get_paragraph_text(child)

\* the body of the loop of get_paragraph_text for one child
ParagraphTextOfChild(child) ==
  IF child.tag = "ins"
    THEN IF get_plain_text(child) # <<>>
           THEN format_insertion_text(get_plain_text(child)) ELSE <<>>
  ELSE IF child.tag = "del"
    THEN IF get_plain_text(child) # <<>>
           THEN format_deletion_text(get_plain_text(child)) ELSE <<>>
  ELSE IF child.tag = "r"
    THEN get_plain_text(child)
  ELSE get_paragraph_text(child)

ParagraphTextOfKids(kids) ==
  IF kids = <<>> THEN <<>>
  ELSE ParagraphTextOfChild(Head(kids)) \o ParagraphTextOfKids(Tail(kids))

get_paragraph_text(element) == ParagraphTextOfKids(element.kids)

---------------------------------------------------------------------------
(* Comment Anchor Resolver *)

RECURSIVE Descendants(_)
RECURSIVE DescendantsOfKids(_)

\* the elements below `element`, in document order (what ".//" selects from)
Descendants(element) == DescendantsOfKids(element.kids)

DescendantsOfKids(kids) ==
  IF kids = <<>> THEN <<>>
  ELSE <<Head(kids)>> \o Descendants(Head(kids)) \o DescendantsOfKids(Tail(kids))

SelectTag(elems, tag) == SelectSeq(elems, LAMBDA e : e.tag = tag)

\* the first position of a match
SetMin(S) == CHOOSE m \in S : \A n \in S : m <= n

InSeq(x, seq) == \E i \in 1..Len(seq) : seq[i] = x

\* paragraph_el.find(".//w:commentRangeEnd[@w:id='...']") is not None
HasEnd(elems, comment_id) ==
  \E i \in 1..Len(elems) :
    elems[i].tag = "commentRangeEnd" /\ elems[i].id = comment_id

RECURSIVE IdsWithEnd(_, _)
IdsWithEnd(starts, elems) ==
  IF starts = <<>> THEN <<>>
  ELSE (IF HasEnd(elems, Head(starts).id) THEN <<Head(starts).id>> ELSE <<>>)
         \o IdsWithEnd(Tail(starts), elems)

\* the id of every start marker whose end marker is anywhere in the paragraph
get_comment_ids_in_paragraph(paragraph_el) ==
  IdsWithEnd(SelectTag(Descendants(paragraph_el), "commentRangeStart"),
             Descendants(paragraph_el))

\* A dict is the sequence of its items in insertion order.
HasKey(dict, key) == \E i \in 1..Len(dict) : dict[i].id = key

\* { comment_id: {"anchor": "", ...} for comment_id in comment_ids }
RECURSIVE InitialComments(_, _)
InitialComments(comment_ids, dict) ==
  IF comment_ids = <<>> THEN dict
  ELSE InitialComments(Tail(comment_ids),
         IF HasKey(dict, Head(comment_ids)) THEN dict
         ELSE Append(dict, [id |-> Head(comment_ids), anchor |-> <<>>]))

\* comments[comment_id]["anchor"] += text
AddToAnchor(dict, key, text) ==
  [i \in 1..Len(dict) |->
     IF dict[i].id = key THEN [dict[i] EXCEPT !.anchor = @ \o text] ELSE dict[i]]

\* The text of a leaf as lines 126-135 leave it: the element's text (None for
\* an empty leaf), formatted if the grandparent is an insertion or deletion.
\* `ancestors` holds the tags of the stack, the leaf's own tag last.
LeafText(elem, ancestors) ==
  LET grandparent == IF Len(ancestors) >= 3 THEN ancestors[Len(ancestors) - 2] ELSE "None"
  IN IF grandparent = "ins"
       THEN [isNone |-> FALSE, str |-> format_insertion_text(elem.text)]
     ELSE IF grandparent = "del"
       THEN [isNone |-> FALSE, str |-> format_deletion_text(elem.text)]
     ELSE [isNone |-> elem.text = NoneText, str |-> elem.text]

\* for comment_id in active_comments: comments[comment_id]["anchor"] += text
\* An id that is no key of comments raises KeyError, a None text TypeError.
RECURSIVE AssignText(_, _, _)
AssignText(st, ids, text) ==
  IF ids = <<>> \/ st.raised # "" THEN st
  ELSE IF ~HasKey(st.comments, Head(ids)) THEN [st EXCEPT !.raised = "KeyError"]
  ELSE IF text.isNone THEN [st EXCEPT !.raised = "TypeError"]
  ELSE AssignText([st EXCEPT !.comments = AddToAnchor(@, Head(ids), text.str)],
                  Tail(ids), text)

\* list.remove(x): the first occurrence only
RemoveFirst(seq, x) ==
  LET i == SetMin({ k \in 1..Len(seq) : seq[k] = x })
  IN SubSeq(seq, 1, i - 1) \o SubSeq(seq, i + 1, Len(seq))

\* lines 119-139: what entering an element does
EnterElem(elem, st, ancestors) ==
  IF elem.tag = "commentRangeStart"
    THEN [st EXCEPT !.active = Append(@, elem.id)]
  ELSE IF st.active # <<>> /\ IsTextTag(elem.tag)
    THEN AssignText(st, st.active, LeafText(elem, ancestors))
  ELSE st

\* leaving an element without the "if comment_id in active_comments" guard:
\* list.remove raises ValueError for a value that is not in the list
LeaveElem_NoGuard(elem, st) ==
  IF elem.tag = "commentRangeEnd"
    THEN IF InSeq(elem.id, st.active)
           THEN [st EXCEPT !.active = RemoveFirst(@, elem.id)]
           ELSE [st EXCEPT !.raised = "ValueError"]
  ELSE st

\* lines 144-148: what leaving an element does
LeaveElem(elem, st) ==
  IF elem.tag = "commentRangeEnd" /\ InSeq(elem.id, st.active)
    THEN [st EXCEPT !.active = RemoveFirst(@, elem.id)]
  ELSE st

RECURSIVE get_comment_anchors(_, _, _)
RECURSIVE VisitElem(_, _, _)

\* one iteration of the loop: push, enter, recurse, leave, pop
VisitElem(elem, st, ancestors) ==
  LET entered == EnterElem(elem, st, Append(ancestors, elem.tag))
      walked == IF entered.raised # "" THEN entered
                ELSE get_comment_anchors(elem.kids, entered, Append(ancestors, elem.tag))
  IN IF walked.raised # "" THEN walked ELSE LeaveElem(elem, walked)

\* for elem in parent: ... ; st is [active, comments, raised], the two mutable
\* arguments and the exception that left the walk, if any
get_comment_anchors(kids, st, ancestors) ==
  IF kids = <<>> \/ st.raised # "" THEN st
  ELSE get_comment_anchors(Tail(kids), VisitElem(Head(kids), st, ancestors), ancestors)

---------------------------------------------------------------------------
(* Thread Grouper *)

\* grouped[comment['anchor']].append({"id": comment_id, **comment})
RECURSIVE GroupByAnchor(_, _)
GroupByAnchor(comments, grouped) ==
  IF comments = <<>> THEN grouped
  ELSE LET c == Head(comments)
       IN GroupByAnchor(Tail(comments),
            IF \E i \in 1..Len(grouped) : grouped[i].anchor = c.anchor
              THEN [i \in 1..Len(grouped) |->
                      IF grouped[i].anchor = c.anchor
                        THEN [grouped[i] EXCEPT !.group = Append(@, c)]
                        ELSE grouped[i]]
              ELSE Append(grouped, [anchor |-> c.anchor, group |-> <<c>>]))

\* the last comment of the group taken as the main one, the others as replies
ThreadOfGroup_LastIsMain(group) ==
  [id |-> group[Len(group)].id, anchor |-> group[Len(group)].anchor, content |-> <<>>,
   replies |-> [i \in 1..(Len(group) - 1) |-> [id |-> group[i].id, content |-> <<>>]]]

\* main_comment = group[0].copy(), replies = the ids of group[1:]
ThreadOfGroup(group) ==
  [id |-> group[1].id, anchor |-> group[1].anchor, content |-> <<>>,
   replies |-> [i \in 1..(Len(group) - 1) |-> [id |-> group[i + 1].id, content |-> <<>>]]]

sort_comment_replies(comments) ==
  LET grouped == GroupByAnchor(comments, <<>>)
  IN [i \in 1..Len(grouped) |-> ThreadOfGroup(grouped[i].group)]

---------------------------------------------------------------------------
(* Comment Content Joiner.  comments_root is the sequence of the w:comment   *)
(* elements [id, hasT, text]: hasT says whether the comment holds a w:t.     *)

\* comments_root.find("./w:comment[@w:id='...']"): the first one, or None
FindComment(comments_root, comment_id) ==
  LET hits == { i \in 1..Len(comments_root) : comments_root[i].id = comment_id }
  IN IF hits = {} THEN [found |-> FALSE]
     ELSE [found |-> TRUE, elem |-> comments_root[SetMin(hits)]]

\* the content of one thread and of its replies, or the exception raised
RECURSIVE ReplyContents(_, _, _)

\* a reply or a w:t that is not found is skipped instead of raising
ReplyContents_SkipMissing(comments_root, replies, i) ==
  IF i > Len(replies) THEN [raised |-> "", replies |-> replies]
  ELSE LET reply_elem == FindComment(comments_root, replies[i].id)
       IN IF ~reply_elem.found \/ ~reply_elem.elem.hasT
            THEN ReplyContents(comments_root, replies, i + 1)
          ELSE ReplyContents(comments_root,
                 [replies EXCEPT ![i].content = reply_elem.elem.text], i + 1)

ReplyContents(comments_root, replies, i) ==
  IF i > Len(replies) THEN [raised |-> "", replies |-> replies]
  ELSE LET reply_elem == FindComment(comments_root, replies[i].id)
       IN IF ~reply_elem.found THEN [raised |-> "ValueError", replies |-> replies]
          ELSE IF ~reply_elem.elem.hasT THEN [raised |-> "AttributeError", replies |-> replies]
          ELSE ReplyContents(comments_root,
                 [replies EXCEPT ![i].content = reply_elem.elem.text], i + 1)

RECURSIVE get_comment_content(_, _, _)
get_comment_content(comments_root, comments, i) ==
  IF i > Len(comments) THEN [raised |-> "", comments |-> comments]
  ELSE LET comment_elem == FindComment(comments_root, comments[i].id)
       IN IF ~comment_elem.found THEN [raised |-> "ValueError", comments |-> comments]
          ELSE IF ~comment_elem.elem.hasT THEN [raised |-> "AttributeError", comments |-> comments]
          ELSE LET r == ReplyContents(comments_root, comments[i].replies, 1)
               IN IF r.raised # "" THEN [raised |-> r.raised, comments |-> comments]
                  ELSE get_comment_content(comments_root,
                         [comments EXCEPT ![i].content = comment_elem.elem.text,
                                          ![i].replies = r.replies], i + 1)

\* Lines 205-219, the locals of extract_comments_from_paragraph when it returns or raises:
\* the exception, the active list and the comments dict after the walk, and
\* the returned thread list.
ExtractFromRoot(paragraph_root, comments_root) ==
  LET comment_ids == get_comment_ids_in_paragraph(paragraph_root)
      walk == get_comment_anchors(paragraph_root.kids,
                [active |-> <<>>, comments |-> InitialComments(comment_ids, <<>>),
                 raised |-> ""], <<>>)
      joined == get_comment_content(comments_root, sort_comment_replies(walk.comments), 1)
  IN IF Len(comment_ids) = 0
       THEN [done |-> TRUE, raised |-> "", walked |-> FALSE, active |-> <<>>,
             anchors |-> <<>>, threads |-> <<>>]
     ELSE IF walk.raised # ""
       THEN [done |-> TRUE, raised |-> walk.raised, walked |-> TRUE, active |-> walk.active,
             anchors |-> <<>>, threads |-> <<>>]
     ELSE IF joined.raised # ""
       THEN [done |-> TRUE, raised |-> joined.raised, walked |-> TRUE, active |-> walk.active,
             anchors |-> walk.comments, threads |-> <<>>]
     ELSE [done |-> TRUE, raised |-> "", walked |-> TRUE, active |-> walk.active,
           anchors |-> walk.comments, threads |-> joined.comments]

\* document_root.find(".//*[@w14:paraId='...']"): the first element with the id
FindByParaId(document_root, paragraph_id) ==
  document_root[SetMin({ i \in 1..Len(document_root) : document_root[i].id = paragraph_id })]

extract_comments_from_paragraph(document_root, comments_root, paragraph_id) ==
  ExtractFromRoot(FindByParaId(document_root, paragraph_id), comments_root)

---------------------------------------------------------------------------
(* Inputs of the Text Extractor: paragraphs of up to MaxTextItems children, *)
(* the i-th child carrying the i-th letter.                                 *)

Letters == <<"x", "y", "z", "u", "v", "w">>

TextItems(c) ==
  { Run(<<TextLeaf(c)>>),
    Run(<<TextLeaf(NoneText)>>),
    Ins(<<Run(<<TextLeaf(c)>>)>>),
    Del(<<Run(<<DelTextLeaf(c)>>)>>),
    Ins(<<Run(<<TextLeaf(NoneText)>>)>>),
    Ins(<<Run(<<TextLeaf(c), TextLeaf(c)>>), Run(<<TextLeaf(c)>>)>>),
    Ins(<<Wrapper(<<Run(<<TextLeaf(c)>>)>>)>>),
    Ins(<<Del(<<Run(<<DelTextLeaf(c)>>)>>)>>),
    Wrapper(<<Ins(<<Run(<<TextLeaf(c)>>)>>)>>),
    Wrapper(<<Wrapper(<<Del(<<Run(<<DelTextLeaf(c)>>)>>)>>)>>),
    Wrapper(<<Run(<<TextLeaf(c)>>), Ins(<<Run(<<TextLeaf(c)>>)>>)>>),
    Run(<<Ins(<<TextLeaf(c)>>)>>),
    TextLeaf(c),
    RangeStart("1") }

\* the runs between the comment markers of the resolver's inputs
AnchorItems(c) ==
  { Run(<<TextLeaf(c)>>),
    Ins(<<Run(<<TextLeaf(c)>>)>>),
    Run(<<TextLeaf(NoneText)>>) }

Catalog(kind, c) == IF kind = "text" THEN TextItems(c) ELSE AnchorItems(c)

\* the sequences of n items, the i-th from the catalog with the i-th letter
RECURSIVE ItemSeqs(_, _)
ItemSeqs(kind, n) ==
  IF n = 0 THEN { <<>> }
  ELSE { Append(items, it) : items \in ItemSeqs(kind, n - 1), it \in Catalog(kind, <<Letters[n]>>) }

TextParagraphs ==
  UNION { { Paragraph(kids) : kids \in ItemSeqs("text", n) } : n \in 0..MaxTextItems }

NotYet == [done |-> FALSE]

\* no paragraph list yet
NoList == heap = <<>> /\ paragraphs = <<>> /\ instructions = <<>> /\ calls = <<>>

NotWritten == [written |-> FALSE, lines |-> <<>>]

\* main is not running
NoMain ==
  document_part = <<>> /\ loop_index = 0 /\ error = "" /\ output = NotWritten

\* no text given to has_edits yet
NoSample ==
  /\ sample = [t |-> <<>>, before |-> <<>>, after |-> <<>>]
  /\ checked = [kind |-> "none", text |-> <<>>]
  /\ detected = FALSE

InitText ==
  /\ pc = "text"
  /\ paragraph \in TextParagraphs
  /\ rendered = NotYet
  /\ extracted = NotYet
  /\ comments_part = <<>>
  /\ NoList
  /\ NoSample
  /\ NoMain

RenderParagraph ==
  /\ pc = "text"
  /\ rendered = NotYet
  /\ rendered' = [done |-> TRUE, content |-> get_paragraph_text(paragraph)]
  /\ UNCHANGED <<pc, paragraph, extracted, comments_part, listVars, editVars, mainVars>>

NextText == RenderParagraph

SpecText == InitText /\ [][NextText]_vars

---------------------------------------------------------------------------
(* Inputs of the Comment Anchor Resolver: up to MaxAnchorItems runs, the    *)
(* i-th carrying the i-th letter, and for each comment id a start marker    *)
(* and an end marker, each in one of the gaps 0..n between the runs or      *)
(* absent (place n + 1).  In one gap the start markers come first.          *)

CommentIds == <<"1", "2">>

MarkersAt(place, gap) ==
  LET starts == SelectSeq(CommentIds, LAMBDA id : place.start[id] = gap)
      ends == SelectSeq(CommentIds, LAMBDA id : place.end[id] = gap)
  IN [i \in 1..Len(starts) |-> RangeStart(starts[i])]
       \o [i \in 1..Len(ends) |-> RangeEnd(ends[i])]

RECURSIVE Interleave(_, _, _)
Interleave(items, place, gap) ==
  MarkersAt(place, gap)
    \o (IF gap >= Len(items) THEN <<>>
        ELSE <<items[gap + 1]>> \o Interleave(items, place, gap + 1))

IdSet == { CommentIds[i] : i \in 1..Len(CommentIds) }

\* a comments part that defines every comment id
FullCommentsRoot ==
  [i \in 1..Len(CommentIds) |-> [id |-> CommentIds[i], hasT |-> TRUE, text |-> <<"c", CommentIds[i]>>]]

InitAnchors ==
  /\ pc = "anchors"
  /\ \E n \in 0..MaxAnchorItems :
       \E items \in ItemSeqs("anchors", n),
          s \in [IdSet -> 0..(n + 1)], e \in [IdSet -> 0..(n + 1)] :
         paragraph = Paragraph(Interleave(items, [start |-> s, end |-> e], 0))
  /\ rendered = NotYet
  /\ extracted = NotYet
  /\ comments_part = FullCommentsRoot
  /\ NoList
  /\ NoSample
  /\ NoMain

ExtractComments ==
  /\ pc = "anchors"
  /\ extracted = NotYet
  /\ extracted' = extract_comments_from_paragraph(<<paragraph>>, comments_part, paragraph.id)
  /\ UNCHANGED <<pc, paragraph, rendered, comments_part, listVars, editVars, mainVars>>

NextAnchors == ExtractComments

SpecAnchors == InitAnchors /\ [][NextAnchors]_vars

---------------------------------------------------------------------------
(* Text leaves by position.  A path is the sequence of child indices that  *)
(* leads from the paragraph to a node.                                     *)

RECURSIVE NodeAt(_, _)
NodeAt(e, path) ==
  IF path = <<>> THEN e ELSE NodeAt(e.kids[Head(path)], Tail(path))

RECURSIVE LeafPaths(_, _)
RECURSIVE LeafPathsOfKids(_, _, _)

\* the paths of the text leaves (w:t, w:delText) under e, in document order
LeafPaths(e, path) ==
  (IF IsTextTag(e.tag) THEN <<path>> ELSE <<>>) \o LeafPathsOfKids(e.kids, path, 1)

LeafPathsOfKids(kids, path, i) ==
  IF i > Len(kids) THEN <<>>
  ELSE LeafPaths(kids[i], Append(path, i)) \o LeafPathsOfKids(kids, path, i + 1)

\* the outermost run, insertion or deletion block a leaf lies in: <<>> if none
OwnerOf(p, path) ==
  LET ks == { k \in 1..Len(path) :
                NodeAt(p, SubSeq(path, 1, k)).tag \in {"r", "ins", "del"} }
  IN IF ks = {} THEN <<>> ELSE SubSeq(path, 1, SetMin(ks))

\* the text leaves of p that lie in block `owner`, concatenated in document order
RECURSIVE TextOwnedBy(_, _, _)
TextOwnedBy(p, owner, paths) ==
  IF paths = <<>> THEN <<>>
  ELSE (IF OwnerOf(p, Head(paths)) = owner THEN NodeAt(p, Head(paths)).text ELSE <<>>)
         \o TextOwnedBy(p, owner, Tail(paths))

\* what one block contributes to the rendering
SpanOf(p, owner) ==
  LET T == TextOwnedBy(p, owner, LeafPaths(p, <<>>))
      tag == NodeAt(p, owner).tag
  IN IF tag = "r" THEN T
     ELSE IF T = <<>> THEN <<>>
     ELSE IF tag = "ins" THEN format_insertion_text(T)
     ELSE format_deletion_text(T)

\* one span for each block, at the block's first leaf
RECURSIVE SpansFrom(_, _, _)
SpansFrom(p, paths, i) ==
  IF i > Len(paths) THEN <<>>
  ELSE LET o == OwnerOf(p, paths[i])
       IN (IF o # <<>> /\ \A j \in 1..(i - 1) : OwnerOf(p, paths[j]) # o
             THEN SpanOf(p, o) ELSE <<>>)
            \o SpansFrom(p, paths, i + 1)

ExpectedRendering(p) == SpansFrom(p, LeafPaths(p, <<>>), 1)

\* C10: get_paragraph_text renders a paragraph as the concatenation, in
\* document order, of the unchanged text of each run and, for each insertion
\* or deletion block (also inside unrecognized wrapper nodes), exactly one
\* formatted span of all the text leaves of the block; a block with no text
\* contributes nothing.
C10_RenderingIsOneSpanPerBlock ==
  rendered.done => rendered.content = ExpectedRendering(paragraph)

\* a rendered paragraph with a block of several leaves, a block inside a
\* wrapper and a block with no text
C10_Witness ==
  /\ pc = "text"
  /\ rendered.done
  /\ \E i, j \in 1..Len(paragraph.kids) :
       /\ i < j
       /\ paragraph.kids[i].tag = "smartTag"
       /\ paragraph.kids[i].kids[1].tag \in {"ins", "del"}
       /\ paragraph.kids[j].tag = "ins"
       /\ get_plain_text(paragraph.kids[j]) = <<>>
  /\ rendered.content = format_insertion_text(<<"x">>)

C10_WitnessManyLeaves ==
  /\ pc = "text"
  /\ rendered.done
  /\ paragraph.kids = <<Ins(<<Run(<<TextLeaf(<<"x">>), TextLeaf(<<"x">>)>>), Run(<<TextLeaf(<<"x">>)>>)>>)>>
  /\ rendered.content = <<"*", "*", "x", "x", "x", "*", "*">>

---------------------------------------------------------------------------
(* Comment ranges by position *)

RECURSIVE AllPaths(_, _)
RECURSIVE AllPathsOfKids(_, _, _)

\* the paths of all the nodes below e, in document order
AllPaths(e, path) == AllPathsOfKids(e.kids, path, 1)

AllPathsOfKids(kids, path, i) ==
  IF i > Len(kids) THEN <<>>
  ELSE <<Append(path, i)>> \o AllPaths(kids[i], Append(path, i))
         \o AllPathsOfKids(kids, path, i + 1)

\* the positions, in document order, of the markers of a kind and id
MarkerPositions(p, tag, id) ==
  LET paths == AllPaths(p, <<>>)
  IN { i \in 1..Len(paths) : NodeAt(p, paths[i]).tag = tag /\ NodeAt(p, paths[i]).id = id }

StartsOf(p, id) == MarkerPositions(p, "commentRangeStart", id)

EndsOf(p, id) == MarkerPositions(p, "commentRangeEnd", id)

\* the ids that some marker of the paragraph carries
MarkedIds(p) == { id \in IdSet : StartsOf(p, id) # {} \/ EndsOf(p, id) # {} }

\* exactly one start marker, followed later by exactly one end marker
WellFormedRange(p, id) ==
  /\ Cardinality(StartsOf(p, id)) = 1
  /\ Cardinality(EndsOf(p, id)) = 1
  /\ \A s \in StartsOf(p, id), e \in EndsOf(p, id) : s < e

TagsAlong(p, path) == [k \in 1..Len(path) |-> NodeAt(p, SubSeq(path, 1, k)).tag]

\* what a text leaf adds to an anchor: its text, formatted as the resolver
\* formats it; a leaf with no text adds nothing
LeafContribution(p, path) ==
  IF NodeAt(p, path).text = NoneText THEN <<>>
  ELSE LeafText(NodeAt(p, path), TagsAlong(p, path)).str

\* the contributions of the text leaves at positions from+1 .. to-1
RECURSIVE TextBetween(_, _, _, _)
TextBetween(p, paths, from, to) ==
  IF from + 1 >= to THEN <<>>
  ELSE (IF IsTextTag(NodeAt(p, paths[from + 1]).tag)
          THEN LeafContribution(p, paths[from + 1]) ELSE <<>>)
         \o TextBetween(p, paths, from + 1, to)

ExpectedAnchor(p, id) ==
  TextBetween(p, AllPaths(p, <<>>), SetMin(StartsOf(p, id)), SetMin(EndsOf(p, id)))

AnchorOf(dict, id) == dict[SetMin({ i \in 1..Len(dict) : dict[i].id = id })].anchor

\* the ids of a thread list, primaries and replies
ThreadIds(threads) ==
  { threads[i].id : i \in 1..Len(threads) }
    \cup UNION { { threads[i].replies[j].id : j \in 1..Len(threads[i].replies) }
                 : i \in 1..Len(threads) }

HasEmptyLeaf(p) ==
  LET paths == LeafPaths(p, <<>>)
  IN \E i \in 1..Len(paths) : NodeAt(p, paths[i]).text = NoneText

\* C1: in a paragraph where every comment id has exactly one start marker
\* followed later by exactly one end marker, every id gets as its anchor the
\* concatenation, in document order, of exactly the text leaves between its
\* start and its end marker, for any nesting or overlap of the ranges.
C1_AnchorIsTextBetweenMarkers ==
  (/\ extracted.done
   /\ MarkedIds(paragraph) # {}
   /\ \A id \in MarkedIds(paragraph) : WellFormedRange(paragraph, id))
  => /\ extracted.raised = ""
     /\ \A id \in MarkedIds(paragraph) :
          /\ HasKey(extracted.anchors, id)
          /\ AnchorOf(extracted.anchors, id) = ExpectedAnchor(paragraph, id)

\* the same, for the paragraphs whose text leaves all have text
C1_OnLeavesWithText ==
  ~HasEmptyLeaf(paragraph) => C1_AnchorIsTextBetweenMarkers

\* x <start 1> <start 2> y <end 2> z <end 1> gives anchor[2] = y, anchor[1] = yz
C1_NestedRangesResolved ==
  /\ extracted.done
  /\ paragraph.kids = <<Run(<<TextLeaf(<<"x">>)>>), RangeStart("1"), RangeStart("2"),
                        Run(<<TextLeaf(<<"y">>)>>), RangeEnd("2"),
                        Run(<<TextLeaf(<<"z">>)>>), RangeEnd("1")>>
  /\ extracted.raised = ""
  /\ AnchorOf(extracted.anchors, "2") = <<"y">>
  /\ AnchorOf(extracted.anchors, "1") = <<"y", "z">>

\* a start marker of id with no end marker of id after it
Unclosed(p, id) ==
  \E s \in StartsOf(p, id) : \A e \in EndsOf(p, id) : e < s

\* C2: a comment id that is opened by a start marker but never closed by a
\* later end marker in the same paragraph is discarded: no thread (primary or
\* reply) is returned for it and the extraction does not raise.
C2_UnclosedIsDiscarded ==
  (extracted.done /\ ~HasEmptyLeaf(paragraph))
  => \A id \in IdSet :
       Unclosed(paragraph, id)
       => extracted.raised = "" /\ id \notin ThreadIds(extracted.threads)

\* an end marker of id, and no start marker of id
Orphan(p, id) == EndsOf(p, id) # {} /\ StartsOf(p, id) = {}

RECURSIVE StripOrphanEnds(_, _)
RECURSIVE StripKids(_, _)

\* e without the end markers of the ids in `orphans`
StripOrphanEnds(e, orphans) == [e EXCEPT !.kids = StripKids(e.kids, orphans)]

StripKids(kids, orphans) ==
  IF kids = <<>> THEN <<>>
  ELSE (IF Head(kids).tag = "commentRangeEnd" /\ Head(kids).id \in orphans
          THEN <<>> ELSE <<StripOrphanEnds(Head(kids), orphans)>>)
         \o StripKids(Tail(kids), orphans)

OrphanIds(p) == { id \in IdSet : Orphan(p, id) }

\* C3: an end marker whose id has no start marker in the paragraph is ignored:
\* the extraction ends as it does on the paragraph without that marker (same
\* threads, same anchors, same active list, and it raises only if it raises
\* without the marker), and the id is in no thread, anchor or active list; with
\* every other range well formed and every leaf holding text, nothing is raised.
C3_OrphanEndIsIgnored ==
  (extracted.done /\ OrphanIds(paragraph) # {})
  => /\ extracted = extract_comments_from_paragraph(
                      <<StripOrphanEnds(paragraph, OrphanIds(paragraph))>>,
                      comments_part, paragraph.id)
     /\ \A id \in OrphanIds(paragraph) :
          /\ id \notin ThreadIds(extracted.threads)
          /\ ~HasKey(extracted.anchors, id)
          /\ ~InSeq(id, extracted.active)
     /\ (/\ ~HasEmptyLeaf(paragraph)
         /\ \A id \in MarkedIds(paragraph) \ OrphanIds(paragraph) :
              WellFormedRange(paragraph, id))
        => extracted.raised = ""

\* an orphan end marker met while another range is open, whose thread is returned
C3_Witness ==
  /\ extracted.done
  /\ extracted.raised = ""
  /\ Orphan(paragraph, "2")
  /\ WellFormedRange(paragraph, "1")
  /\ \E s \in StartsOf(paragraph, "1"), e \in EndsOf(paragraph, "1"), o \in EndsOf(paragraph, "2") :
       s < o /\ o < e
  /\ Len(extracted.threads) = 1
  /\ extracted.threads[1].id = "1"
  /\ extracted.threads[1].anchor = <<"x", "y">>

\* the members of a thread, the primary first
Members(thread) ==
  <<thread.id>> \o [j \in 1..Len(thread.replies) |-> thread.replies[j].id]

C4_WitnessDocumentOrder ==
  /\ extracted.done
  /\ extracted.raised = ""
  /\ Len(extracted.threads) = 1
  /\ paragraph.kids[1] = RangeStart("2")
  /\ Members(extracted.threads[1]) = <<"2", "1">>

---------------------------------------------------------------------------
(* Context Windower.  A paragraph dict is a heap object                     *)
(*   [id, content, comments, marked, working_paragraph]                     *)
(* where marked says whether the dict has the key 'working_paragraph'.      *)
(* Lists hold references, so that a list and its slice share their dicts    *)
(* and copy.deepcopy is what gives a window dicts of its own.               *)

Max(a, b) == IF a >= b THEN a ELSE b

Min(a, b) == IF a <= b THEN a ELSE b

ParagraphDict(id, content, comments) ==
  [id |-> id, content |-> content, comments |-> comments,
   marked |-> FALSE, working_paragraph |-> FALSE]

\* plist[start:end] with 0 <= start and end <= len(plist)
Slice(plist, start, end) == SubSeq(plist, start + 1, end)

\* copy.deepcopy of a list of dicts: a new dict for each, with equal values
DeepCopy(h, refs) ==
  [heap |-> h \o [i \in 1..Len(refs) |-> h[refs[i]]],
   refs |-> [i \in 1..Len(refs) |-> Len(h) + i]]

\* paragraph['working_paragraph'] = (start + i == index) for i, paragraph in enumerate(context)
RECURSIVE MarkWorking(_, _, _, _, _)
MarkWorking(h, context, i, start, index) ==
  IF i >= Len(context) THEN h
  ELSE MarkWorking([h EXCEPT ![context[i + 1]].marked = TRUE,
                             ![context[i + 1]].working_paragraph = (start + i = index)],
                   context, i + 1, start, index)

\* the window is the slice itself: no copy.deepcopy
get_context_NoDeepCopy(h, plist, index, context_level) ==
  LET start == Max(0, index - context_level)
      end == Min(Len(plist), index + context_level + 1)
  IN [heap |-> MarkWorking(h, Slice(plist, start, end), 0, start, index),
      context |-> Slice(plist, start, end)]

\* end = min(len(paragraphs), index + context_level): the window stops one short
get_context_EndOffByOne(h, plist, index, context_level) ==
  LET start == Max(0, index - context_level)
      end == Min(Len(plist), index + context_level)
      copied == DeepCopy(h, Slice(plist, start, end))
  IN [heap |-> MarkWorking(copied.heap, copied.refs, 0, start, index),
      context |-> copied.refs]

\* returns the heap after the call and the window
get_context(h, plist, index, context_level) ==
  LET start == Max(0, index - context_level)
      end == Min(Len(plist), index + context_level + 1)
      copied == DeepCopy(h, Slice(plist, start, end))
  IN [heap |-> MarkWorking(copied.heap, copied.refs, 0, start, index),
      context |-> copied.refs]

\* a list of n paragraphs, the paragraph at (0-based) position i with id i
InitContext ==
  /\ pc = "context"
  /\ paragraph = Paragraph(<<>>) /\ rendered = NotYet /\ extracted = NotYet
  /\ comments_part = <<>>
  /\ \E n \in 1..MaxListLen :
       /\ heap = [i \in 1..n |-> ParagraphDict(i - 1, <<Letters[((i - 1) % Len(Letters)) + 1]>>, <<>>)]
       /\ paragraphs = [i \in 1..n |-> i]
  /\ instructions = <<>>
  /\ calls = <<>>
  /\ NoSample
  /\ NoMain

CallGetContext(index, context_level) ==
  /\ pc = "context"
  /\ Len(instructions) < MaxCalls
  /\ LET r == get_context(heap, paragraphs, index, context_level)
     IN /\ heap' = r.heap
        /\ instructions' = Append(instructions, r.context)
  /\ calls' = Append(calls, [index |-> index, context_level |-> context_level])
  /\ UNCHANGED <<pc, paraVars, comments_part, paragraphs, editVars, mainVars>>

NextContext ==
  \E index \in 0..(Len(paragraphs) - 1), context_level \in 0..MaxRadius :
    CallGetContext(index, context_level)

SpecContext == InitContext /\ [][NextContext]_vars

\* the (0-based) source positions within `radius` of `index`
Near(n, index, radius) ==
  { q \in 0..(n - 1) : q - index <= radius /\ index - q <= radius }

\* window k holds copies of exactly the paragraphs near its index, in order,
\* and marks as subject the copy of the paragraph at index and no other
WindowIsRight(k) ==
  LET w == instructions[k]
      near == Near(Len(paragraphs), calls[k].index, calls[k].context_level)
  IN /\ Len(w) = Cardinality(near)
     /\ \A j \in 1..Len(w) :
          /\ heap[w[j]].id = SetMin(near) + (j - 1)
          /\ heap[w[j]].content = heap[paragraphs[heap[w[j]].id + 1]].content
          /\ heap[w[j]].marked
          /\ heap[w[j]].working_paragraph <=> (heap[w[j]].id = calls[k].index)
     /\ Cardinality({ j \in 1..Len(w) : heap[w[j]].working_paragraph }) = 1
     /\ heap[w[calls[k].index - Max(0, calls[k].index - calls[k].context_level) + 1]].working_paragraph

\* C6: for 0 <= index < len(paragraphs) and radius >= 0, get_context returns
\* the paragraphs at positions max(0, index-radius) up to but excluding
\* min(len, index+radius+1), in order, with exactly one element marked as
\* subject, the one at window position index - max(0, index-radius).
C6_WindowReturned ==
  (pc = "context" /\ instructions # <<>>) => WindowIsRight(Len(instructions))

\* on a 5-element list: index 0 radius 1 gives [0, 1] with subject at 0,
\* then index 4 radius 1 gives [3, 4] with subject at position 1
C6_Witness ==
  /\ pc = "context"
  /\ Len(paragraphs) = 5
  /\ calls = <<[index |-> 0, context_level |-> 1], [index |-> 4, context_level |-> 1]>>
  /\ [j \in 1..2 |-> heap[instructions[1][j]].id] = <<0, 1>>
  /\ [j \in 1..2 |-> heap[instructions[1][j]].working_paragraph] = <<TRUE, FALSE>>
  /\ [j \in 1..2 |-> heap[instructions[2][j]].id] = <<3, 4>>
  /\ [j \in 1..2 |-> heap[instructions[2][j]].working_paragraph] = <<FALSE, TRUE>>

\* radius 0 gives a window of the subject alone
C6_WitnessRadiusZero ==
  /\ pc = "context"
  /\ Len(paragraphs) = 5
  /\ calls = <<[index |-> 2, context_level |-> 0]>>
  /\ Len(instructions[1]) = 1
  /\ heap[instructions[1][1]].id = 2
  /\ heap[instructions[1][1]].working_paragraph

\* C7: after any sequence of get_context calls on the same list, the source
\* list is unchanged (no paragraph of it carries a subject mark) and every
\* window returned so far still marks exactly its own subject, also when a
\* source paragraph occurs in several windows; no window shares a dict with
\* the source list or with another window.
C7_WindowsAreIndependent ==
  pc = "context"
  => /\ paragraphs = [i \in 1..Len(paragraphs) |-> i]
     /\ \A i \in 1..Len(paragraphs) :
          heap[paragraphs[i]] =
            ParagraphDict(i - 1, <<Letters[((i - 1) % Len(Letters)) + 1]>>, <<>>)
     /\ \A k \in 1..Len(instructions) :
          /\ WindowIsRight(k)
          /\ \A j \in 1..Len(instructions[k]) :
               /\ ~InSeq(instructions[k][j], paragraphs)
               /\ \A k2 \in 1..Len(instructions) :
                    k2 # k => ~InSeq(instructions[k][j], instructions[k2])

\* two windows that overlap in a source paragraph which is the subject of one
\* and a neighbour in the other
C7_Witness ==
  /\ pc = "context"
  /\ Len(calls) = 2
  /\ calls[1].index + 1 = calls[2].index
  /\ calls[1].context_level = 1 /\ calls[2].context_level = 1
  /\ \E j1 \in 1..Len(instructions[1]), j2 \in 1..Len(instructions[2]) :
       /\ heap[instructions[1][j1]].id = heap[instructions[2][j2]].id
       /\ heap[instructions[1][j1]].working_paragraph
       /\ ~heap[instructions[2][j2]].working_paragraph

---------------------------------------------------------------------------
(* Edit-marker detection: has_edits on formatted and on plain text *)

Alphabet == {"a", "*", "-", "\n"}

RECURSIVE Texts(_)
\* the texts of exactly n characters
Texts(n) ==
  IF n = 0 THEN { <<>> }
  ELSE { Append(t, c) : t \in Texts(n - 1), c \in Alphabet }

PlainAffixes == { <<>>, <<"a">> }

InitEdits ==
  /\ pc = "edits"
  /\ paragraph = Paragraph(<<>>) /\ rendered = NotYet /\ extracted = NotYet
  /\ comments_part = <<>>
  /\ NoList
  /\ \E n \in 1..MaxTextLen :
       \E t \in Texts(n), before \in PlainAffixes, after \in PlainAffixes :
         sample = [t |-> t, before |-> before, after |-> after]
  /\ checked = [kind |-> "none", text |-> <<>>]
  /\ detected = FALSE
  /\ NoMain

CheckText(kind, text) ==
  /\ pc = "edits"
  /\ checked.kind = "none"
  /\ checked' = [kind |-> kind, text |-> text]
  /\ detected' = has_edits(text)
  /\ UNCHANGED <<pc, paraVars, comments_part, listVars, sample, mainVars>>

\* has_edits(before + format_insertion_text(t) + after)
CheckInsertion ==
  CheckText("insertion", sample.before \o format_insertion_text(sample.t) \o sample.after)

\* has_edits(before + format_deletion_text(t) + after)
CheckDeletion ==
  CheckText("deletion", sample.before \o format_deletion_text(sample.t) \o sample.after)

\* has_edits(before + t + after)
CheckPlain ==
  CheckText("plain", sample.before \o sample.t \o sample.after)

NextEdits == CheckInsertion \/ CheckDeletion \/ CheckPlain

SpecEdits == InitEdits /\ [][NextEdits]_vars

HasChar(text, c) == \E i \in 1..Len(text) : text[i] = c

\* C9: for every non-empty text t, has_edits(format_insertion_text(t)) and
\* has_edits(format_deletion_text(t)) are True, also when the formatted span
\* is embedded in plain text; and has_edits(s) is False for every text s that
\* contains none of the marker glyphs.
C9_FormattedTextIsDetected ==
  /\ (checked.kind \in {"insertion", "deletion"} /\ sample.t # <<>>) => detected
  /\ (checked.kind = "plain" /\ ~HasChar(checked.text, "*") /\ ~HasChar(checked.text, "-"))
       => ~detected

\* the same, for the texts t without a line break
C9_OnOneLineTexts ==
  ~HasChar(sample.t, "\n") => C9_FormattedTextIsDetected

---------------------------------------------------------------------------
(* main: extract_paragraphs, the comments of each paragraph,                *)
(* generate_instructions, export_instructions_to_txt                        *)

\* the dicts of the paragraphs with a non-empty text, in document order
RECURSIVE extract_paragraphs(_)
extract_paragraphs(root) ==
  IF root = <<>> THEN <<>>
  ELSE (IF get_paragraph_text(Head(root)) # <<>>
          THEN <<ParagraphDict(Head(root).id, get_paragraph_text(Head(root)), <<>>)>>
          ELSE <<>>)
         \o extract_paragraphs(Tail(root))

\* the loop of generate_instructions from (0-based) index on; r is [heap, instructions, calls]
RECURSIVE generate_instructions(_, _, _)
generate_instructions(r, plist, index) ==
  IF index >= Len(plist) THEN r
  ELSE IF r.heap[plist[index + 1]].comments # <<>>
          \/ has_edits(r.heap[plist[index + 1]].content)
    THEN LET c == get_context(r.heap, plist, index, 1)
         IN generate_instructions(
              [heap |-> c.heap, instructions |-> Append(r.instructions, c.context),
               calls |-> Append(r.calls, [index |-> index, context_level |-> 1])],
              plist, index + 1)
  ELSE generate_instructions(r, plist, index + 1)

BlockStart == <<"=", "=", "=">>

ContextHeader == <<"C", "u", "r", "r", "e", "n", "t", " ", "c", "o", "n", "t", "e", "x", "t", ":">>

CommentsHeader == <<"C", "o", "m", "m", "e", "n", "t", "(", "s", ")", ":">>

NoneLine == <<"!", "N", "O", "N", "E", "!">>

\* the line of a paragraph of the window: the subject in braces
RECURSIVE ContextLines(_, _)
ContextLines(h, context) ==
  IF context = <<>> THEN <<>>
  ELSE <<IF h[Head(context)].working_paragraph
           THEN <<"{">> \o h[Head(context)].content \o <<"}">>
           ELSE h[Head(context)].content>>
         \o ContextLines(h, Tail(context))

RECURSIVE ReplyText(_)
ReplyText(replies) ==
  IF replies = <<>> THEN <<>>
  ELSE FStr(Head(replies).content) \o <<".", " ">> \o ReplyText(Tail(replies))

\* [anchor] -> content. reply. reply.
CommentLine(comment) ==
  <<"[">> \o comment.anchor \o <<"]", " ", "-", ">", " ">>
    \o FStr(comment.content) \o <<".", " ">> \o ReplyText(comment.replies)

\* the working paragraph is the last one of the window that is marked
WorkingParagraph(h, context) ==
  h[context[CHOOSE i \in 1..Len(context) :
              /\ h[context[i]].working_paragraph
              /\ \A j \in (i + 1)..Len(context) : ~h[context[j]].working_paragraph]]

BlockLines(h, context) ==
  LET working_paragraph == WorkingParagraph(h, context)
  IN <<BlockStart, ContextHeader>> \o ContextLines(h, context)
       \o <<<<>>, CommentsHeader>>
       \o (IF Len(working_paragraph.comments) = 0 THEN <<NoneLine>>
           ELSE [i \in 1..Len(working_paragraph.comments) |->
                   CommentLine(working_paragraph.comments[i])])

RECURSIVE AllBlockLines(_, _)
AllBlockLines(h, contexts) ==
  IF contexts = <<>> THEN <<>>
  ELSE BlockLines(h, Head(contexts)) \o AllBlockLines(h, Tail(contexts))

\* the lines of the file, each without its line feed
export_instructions_to_txt(h, contexts) == AllBlockLines(h, contexts) \o <<BlockStart>>

---------------------------------------------------------------------------
(* Inputs of main: up to MaxParagraphs paragraphs, the i-th with the i-th   *)
(* letter and the w14:paraId i, and a comments part.                        *)

DocumentItems(c) ==
  { <<Run(<<TextLeaf(c)>>)>>,
    <<Run(<<TextLeaf(c)>>), Ins(<<Run(<<TextLeaf(c)>>)>>)>>,
    <<RangeStart("1"), Run(<<TextLeaf(c)>>), RangeEnd("1")>>,
    <<RangeStart("1"), RangeStart("2"), Del(<<Run(<<DelTextLeaf(c)>>)>>),
      RangeEnd("1"), RangeEnd("2")>>,
    <<>>,
    <<Run(<<TextLeaf(<<"-", "-">> \o c \o <<"-", "-">>)>>)>>,
    <<Ins(<<Run(<<TextLeaf(c \o <<"\n">> \o c)>>)>>)>> }

RECURSIVE Documents(_)
Documents(n) ==
  IF n = 0 THEN { <<>> }
  ELSE { Append(d, [tag |-> "p", text |-> NoneText, id |-> n, kids |-> kids]) :
           d \in Documents(n - 1), kids \in DocumentItems(<<Letters[((n - 1) % Len(Letters)) + 1]>>) }

\* every comment defined; comment 2 not defined; comment 2 defined without a w:t
CommentsParts ==
  { FullCommentsRoot,
    <<[id |-> "1", hasT |-> TRUE, text |-> <<"c", "1">>]>>,
    <<[id |-> "1", hasT |-> TRUE, text |-> <<"c", "1">>],
      [id |-> "2", hasT |-> FALSE, text |-> NoneText]>> }

Init ==
  /\ pc = "extract_paragraphs"
  /\ paragraph = Paragraph(<<>>) /\ rendered = NotYet /\ extracted = NotYet
  /\ NoList
  /\ NoSample
  /\ \E n \in 0..MaxParagraphs : document_part \in Documents(n)
  /\ comments_part \in CommentsParts
  /\ loop_index = 0
  /\ error = ""
  /\ output = NotWritten

\* paragraphs = extract_paragraphs(document_root)
ExtractParagraphs ==
  /\ pc = "extract_paragraphs"
  /\ heap' = extract_paragraphs(document_part)
  /\ paragraphs' = [i \in 1..Len(extract_paragraphs(document_part)) |-> i]
  /\ pc' = "extract_comments"
  /\ UNCHANGED <<paraVars, comments_part, instructions, calls, editVars, mainVars>>

\* one iteration of: paragraph["comments"] = extract_comments_from_paragraph(...)
ExtractCommentsOfNext ==
  /\ pc = "extract_comments"
  /\ loop_index < Len(paragraphs)
  /\ LET ref == paragraphs[loop_index + 1]
         r == extract_comments_from_paragraph(document_part, comments_part, heap[ref].id)
     IN IF r.raised # ""
          THEN /\ pc' = "aborted"
               /\ error' = r.raised
               /\ UNCHANGED <<heap, loop_index>>
          ELSE /\ heap' = [heap EXCEPT ![ref].comments = r.threads]
               /\ loop_index' = loop_index + 1
               /\ UNCHANGED <<pc, error>>
  /\ UNCHANGED <<paraVars, comments_part, paragraphs, instructions, calls, editVars,
                 document_part, output>>

\* instructions = generate_instructions(paragraphs)
GenerateInstructions ==
  /\ pc = "extract_comments"
  /\ loop_index = Len(paragraphs)
  /\ LET r == generate_instructions(
                [heap |-> heap, instructions |-> <<>>, calls |-> <<>>], paragraphs, 0)
     IN /\ heap' = r.heap
        /\ instructions' = r.instructions
        /\ calls' = r.calls
  /\ pc' = "export"
  /\ UNCHANGED <<paraVars, comments_part, paragraphs, editVars, mainVars>>

\* export_instructions_to_txt(instructions, output_file)
ExportInstructions ==
  /\ pc = "export"
  /\ output' = [written |-> TRUE, lines |-> export_instructions_to_txt(heap, instructions)]
  /\ pc' = "done"
  /\ UNCHANGED <<paraVars, comments_part, listVars, editVars, document_part, loop_index, error>>

Next ==
  \/ ExtractParagraphs
  \/ ExtractCommentsOfNext
  \/ GenerateInstructions
  \/ ExportInstructions

Spec == Init /\ [][Next]_vars

---------------------------------------------------------------------------
(* Claims about main *)

\* a paragraph that is kept (its text is not empty) has a comment range,
\* closed in the paragraph, whose id no w:comment defines
MissingDefinition ==
  \E i \in 1..Len(document_part) :
    /\ get_paragraph_text(document_part[i]) # <<>>
    /\ \E id \in IdSet :
         /\ InSeq(id, get_comment_ids_in_paragraph(document_part[i]))
         /\ \A j \in 1..Len(comments_part) : comments_part[j].id # id

ElementOf(q) == FindByParaId(document_part, heap[paragraphs[q]].id)

\* the paragraph holds an insertion or deletion block with text: its content
\* holds the formatted representation of an insertion or deletion
HasEditMarker(p) ==
  LET paths == LeafPaths(p, <<>>)
  IN \E i \in 1..Len(paths) :
       /\ OwnerOf(p, paths[i]) # <<>>
       /\ NodeAt(p, OwnerOf(p, paths[i])).tag \in {"ins", "del"}
       /\ NodeAt(p, paths[i]).text # NoneText

\* paragraph q (1-based) of the list qualifies for a block
Qualifies(q, byMarker) ==
  \/ heap[paragraphs[q]].comments # <<>>
  \/ IF byMarker THEN HasEditMarker(ElementOf(q))
     ELSE has_edits(heap[paragraphs[q]].content)

\* the dict of the subject of window k
SubjectOf(k) ==
  heap[instructions[k][CHOOSE j \in 1..Len(instructions[k]) :
                         heap[instructions[k][j]].working_paragraph]]

IsPrefix(a, b) == Len(a) <= Len(b) /\ SubSeq(b, 1, Len(a)) = a

\* from line pos on, the file holds the blocks of the windows k, k+1, ...: the
\* comment section of a block is the line !NONE! for a subject without
\* threads and otherwise one line per thread, and a last === ends the file
RECURSIVE BlocksFrom(_, _, _)
BlocksFrom(lines, k, pos) ==
  IF k > Len(instructions) THEN pos = Len(lines) /\ lines[pos] = BlockStart
  ELSE LET subject == SubjectOf(k)
           first == pos + 2 + Len(instructions[k]) + 2
           n == IF subject.comments = <<>> THEN 1 ELSE Len(subject.comments)
       IN /\ first + n <= Len(lines)
          /\ lines[pos] = BlockStart
          /\ lines[first - 1] = CommentsHeader
          /\ IF subject.comments = <<>> THEN lines[first] = NoneLine
             ELSE \A i \in 1..n :
                    IsPrefix(<<"[">> \o subject.comments[i].anchor \o <<"]">>,
                             lines[first + i - 1])
          /\ BlocksFrom(lines, k + 1, first + n)

\* one window for each qualifying paragraph and for no other, with that
\* paragraph as the subject, in document order; and the blocks as rendered
OneBlockPerQualifying(byMarker) ==
  LET Q == { q \in 1..Len(paragraphs) : Qualifies(q, byMarker) }
  IN /\ Len(instructions) = Cardinality(Q)
     /\ \A q \in Q :
          LET k == Cardinality({ q2 \in Q : q2 < q }) + 1
          IN /\ k <= Len(instructions)
             /\ Cardinality({ j \in 1..Len(instructions[k]) :
                                heap[instructions[k][j]].working_paragraph }) = 1
             /\ SubjectOf(k).id = heap[paragraphs[q]].id
     /\ pc = "done" => output.written /\ BlocksFrom(output.lines, 1, 1)

\* C8: generate_instructions emits exactly one context window for each
\* paragraph that has at least one edit marker in its content or at least one
\* comment thread, with that paragraph as the subject, none for any other
\* paragraph, in document order of the subjects; the rendered block of a
\* subject with no thread carries the line !NONE!, otherwise one line per thread.
C8_OneBlockPerEditedOrCommented ==
  pc \in {"export", "done"} => OneBlockPerQualifying(TRUE)

\* the same, with "has an edit marker" read as "has_edits(content) is True"
C8_WithDetectedEdits ==
  pc \in {"export", "done"} => OneBlockPerQualifying(FALSE)

---------------------------------------------------------------------------
(* Inputs of the walk over one paragraph: up to MaxLeafItems children, each *)
(* a run or block with one text leaf (the i-th carrying the i-th letter) or *)
(* a start or end marker of a comment id, in any order and number.          *)

MaxLeafItems == 4

LeafItems(c) ==
  { Run(<<TextLeaf(c)>>),
    Ins(<<Run(<<TextLeaf(c)>>)>>),
    Del(<<Run(<<DelTextLeaf(c)>>)>>),
    Ins(<<Wrapper(<<Run(<<TextLeaf(c)>>)>>)>>),
    Run(<<TextLeaf(NoneText)>>),
    Ins(<<Run(<<TextLeaf(NoneText)>>)>>) }

MarkerItems ==
  { RangeStart(id) : id \in IdSet } \cup { RangeEnd(id) : id \in IdSet }

RECURSIVE LeafSeqs(_)
LeafSeqs(n) ==
  IF n = 0 THEN { <<>> }
  ELSE { Append(items, it) : items \in LeafSeqs(n - 1),
                             it \in LeafItems(<<Letters[n]>>) \cup MarkerItems }

InitLeaves ==
  /\ pc = "anchors"
  /\ \E n \in 0..MaxLeafItems : \E items \in LeafSeqs(n) : paragraph = Paragraph(items)
  /\ rendered = NotYet
  /\ extracted = NotYet
  /\ comments_part = FullCommentsRoot
  /\ NoList
  /\ NoSample
  /\ NoMain

SpecLeaves == InitLeaves /\ [][NextAnchors]_vars

---------------------------------------------------------------------------
(* Claims about the text leaves inside comment ranges *)

\* the tag of the nearest insertion or deletion block above a leaf, "" if none
NearestBlockTag(p, path) ==
  LET ks == { k \in 1..(Len(path) - 1) :
                NodeAt(p, SubSeq(path, 1, k)).tag \in {"ins", "del"} }
  IN IF ks = {} THEN ""
     ELSE NodeAt(p, SubSeq(path, 1, CHOOSE k \in ks : \A k2 \in ks : k2 <= k)).tag

\* the text of a leaf, formatted according to its nearest block ancestor
FormattedByNearest(p, path) ==
  LET text == NodeAt(p, path).text
      block == NearestBlockTag(p, path)
  IN IF block = "ins" THEN format_insertion_text(text)
     ELSE IF block = "del" THEN format_deletion_text(text)
     ELSE text

RECURSIVE TextBetweenByNearest(_, _, _, _)
TextBetweenByNearest(p, paths, from, to) ==
  IF from + 1 >= to THEN <<>>
  ELSE (IF IsTextTag(NodeAt(p, paths[from + 1]).tag)
          THEN FormattedByNearest(p, paths[from + 1]) ELSE <<>>)
         \o TextBetweenByNearest(p, paths, from + 1, to)

AnchorByNearest(p, id) ==
  TextBetweenByNearest(p, AllPaths(p, <<>>), SetMin(StartsOf(p, id)), SetMin(EndsOf(p, id)))

\* every comment id of the paragraph has one start and one later end marker
AllRangesWellFormed(p) ==
  MarkedIds(p) # {} /\ \A id \in MarkedIds(p) : WellFormedRange(p, id)

\* C11: a text leaf appended to the open ranges is formatted according to its
\* nearest insertion or deletion block ancestor at any depth (insertion >
\* wrapper > run > text is appended as format_insertion_text(text), a leaf
\* under a deletion block as format_deletion_text(text)), and a leaf with no
\* such ancestor is appended unformatted.
C11_LeafFormattedByNearestBlock ==
  (extracted.done /\ ~HasEmptyLeaf(paragraph) /\ AllRangesWellFormed(paragraph))
  => /\ extracted.raised = ""
     /\ \A id \in MarkedIds(paragraph) :
          AnchorOf(extracted.anchors, id) = AnchorByNearest(paragraph, id)

\* every block above a leaf is the leaf's grandparent
BlocksAtGrandparent(p) ==
  LET paths == LeafPaths(p, <<>>)
  IN \A i \in 1..Len(paths) :
       \A k \in 1..(Len(paths[i]) - 1) :
         NodeAt(p, SubSeq(paths[i], 1, k)).tag \in {"ins", "del"}
         => k = Len(paths[i]) - 2

\* the same, for the paragraphs whose blocks hold their leaves in a run
\* directly below the block
C11_AtGrandparentDepth ==
  BlocksAtGrandparent(paragraph) => C11_LeafFormattedByNearestBlock

\* some id has a second start marker while its range is open, and every id
\* has start markers, all of them before its one end marker
DuplicateStartWhileOpen(p) ==
  /\ MarkedIds(p) # {}
  /\ \A id \in MarkedIds(p) :
       /\ StartsOf(p, id) # {}
       /\ Cardinality(EndsOf(p, id)) = 1
       /\ \A s \in StartsOf(p, id), e \in EndsOf(p, id) : s < e
  /\ \E id \in MarkedIds(p) : Cardinality(StartsOf(p, id)) >= 2

\* C12: a duplicate start marker for an id that is already open does not
\* change the result: every text leaf between the first start marker and the
\* end marker is appended exactly once to the anchor of the id, and the single
\* end marker closes the range, no later leaf being appended.
C12_DuplicateStartChangesNothing ==
  (extracted.done /\ ~HasEmptyLeaf(paragraph) /\ DuplicateStartWhileOpen(paragraph))
  => /\ extracted.raised = ""
     /\ \A id \in MarkedIds(paragraph) :
          AnchorOf(extracted.anchors, id) = ExpectedAnchor(paragraph, id)

\* without a second start marker, the anchors are as expected
C12_WithoutDuplicateStart ==
  (extracted.done /\ ~HasEmptyLeaf(paragraph) /\ AllRangesWellFormed(paragraph))
  => /\ extracted.raised = ""
     /\ \A id \in MarkedIds(paragraph) :
          AnchorOf(extracted.anchors, id) = ExpectedAnchor(paragraph, id)

RECURSIVE StripEmptyLeaves(_)
RECURSIVE StripEmptyKids(_)

\* e without the text leaves that have no text
StripEmptyLeaves(e) == [e EXCEPT !.kids = StripEmptyKids(e.kids)]

StripEmptyKids(kids) ==
  IF kids = <<>> THEN <<>>
  ELSE (IF IsTextTag(Head(kids).tag) /\ Head(kids).text = NoneText
          THEN <<>> ELSE <<StripEmptyLeaves(Head(kids))>>)
         \o StripEmptyKids(Tail(kids))

\* a text leaf with no text lies between the markers of some id
EmptyLeafInRange(p) ==
  LET paths == AllPaths(p, <<>>)
  IN \E id \in MarkedIds(p) :
       \E i \in 1..Len(paths) :
         /\ IsTextTag(NodeAt(p, paths[i]).tag)
         /\ NodeAt(p, paths[i]).text = NoneText
         /\ SetMin(StartsOf(p, id)) < i
         /\ i < SetMin(EndsOf(p, id))

\* C13: a text leaf with no text is treated as the empty string: when it lies
\* inside open comment ranges, inside or outside an insertion or deletion
\* block, get_comment_anchors does not raise and the anchors gain no character
\* from the leaf; and the leaf adds nothing to the rendered content.
C13_EmptyLeafAddsNothing ==
  (extracted.done /\ AllRangesWellFormed(paragraph) /\ EmptyLeafInRange(paragraph))
  => /\ extracted.raised = ""
     /\ \A id \in MarkedIds(paragraph) :
          AnchorOf(extracted.anchors, id)
            = AnchorOf(extract_comments_from_paragraph(
                         <<StripEmptyLeaves(paragraph)>>, comments_part, paragraph.id).anchors, id)
     /\ get_paragraph_text(paragraph) = get_paragraph_text(StripEmptyLeaves(paragraph))

\* the rendered content of a paragraph gains nothing from its empty leaves
C13_RenderedContentUnaffected ==
  get_paragraph_text(paragraph) = get_paragraph_text(StripEmptyLeaves(paragraph))

===========================================================================
